---- MODULE Spec2Model ----
(***************************************************************************)
(* Model of streamlit_app.py: the upload gate of the script, the function  *)
(* analyze_voxel_data, plot_data and the Excel export.                      *)
(*                                                                         *)
(* Numbers the script holds as floats are exact rationals <<n, d>> in      *)
(* lowest terms with d > 0; Python's None is the empty tuple.               *)
(***************************************************************************)
EXTENDS Integers, Sequences, FiniteSets, TLC

VARIABLES
    uploaded_files,   \* value of st.file_uploader in the current script run
    pc,               \* position of the script / of analyze_voxel_data
    i,                \* index of the for loop of analyze_voxel_data
    voxel_data,       \* dict file name -> positive-voxel count
    voxel_volume,     \* None or the voxel volume in cm3 read last
    volumes,          \* locals volume_muscle, volume_graisse_viscerale, volume_graisse_sous_cut
    result,           \* the list literal `result` as far as it is evaluated
    df_result,        \* the DataFrame analyze_voxel_data returned, or None
    exception,        \* "none", or the exception that left analyze_voxel_data
    message,          \* what st.error / st.warning showed in this run
    table,            \* rows st.dataframe showed, or None
    chart,            \* bars st.pyplot showed, or None
    export,           \* what st.download_button offers, or None
    last_failed       \* whether the previous script run ended in an error, a warning or an exception

vars == <<uploaded_files, pc, i, voxel_data, voxel_volume, volumes, result,
          df_result, exception, message, table, chart, export, last_failed>>

----------------------------------------------------------------------------
(* Bounds of the model *)

\* longest list of files one upload of the session holds
MaxFiles == 4

\* longest list of files analyze_voxel_data is called with directly
MaxCallFiles == 3

----------------------------------------------------------------------------
(* Exact rational arithmetic standing for Python's float arithmetic *)

None == <<>>

Abs(x) == IF x < 0 THEN -x ELSE x

RECURSIVE Gcd(_, _)
Gcd(a, b) == IF b = 0 THEN a ELSE Gcd(b, a % b)

\* the rational n/d (d # 0) in lowest terms with a positive denominator
Rat(n, d) ==
    LET g == Gcd(Abs(n), Abs(d))
        s == IF d < 0 THEN -1 ELSE 1
    IN  <<(s * n) \div g, (s * d) \div g>>

\* a * b, reduced crosswise before multiplying
RatMul(a, b) ==
    LET g1 == Gcd(Abs(a[1]), b[2])
        g2 == Gcd(Abs(b[1]), a[2])
        h1 == IF g1 = 0 THEN 1 ELSE g1
        h2 == IF g2 = 0 THEN 1 ELSE g2
    IN  Rat((a[1] \div h1) * (b[1] \div h2), (a[2] \div h2) * (b[2] \div h1))

\* a / b for b # 0
RatDiv(a, b) == RatMul(a, Rat(b[2], b[1]))

RatAdd(a, b) ==
    LET g == Gcd(a[2], b[2])
    IN  Rat(a[1] * (b[2] \div g) + b[1] * (a[2] \div g), a[2] * (b[2] \div g))

\* Python truthiness of a float or None: None and 0.0 are falsy
Truthy(v) == v # None /\ v[1] # 0

----------------------------------------------------------------------------
(* Module constants of the script *)

file_names == <<"skeletal_muscle.nii.gz", "subcutaneous_fat.nii.gz", "torso_fat.nii.gz">>

masse_vol_graisse == Rat(9196, 10000)

masse_vol_muscle == Rat(106, 100)

\* x in file_names, for the list file_names
InFileNames(x) == \E k \in 1..Len(file_names) : file_names[k] = x

----------------------------------------------------------------------------
(* Inputs: uploaded files.  A file is its name, the number of voxels > 0 of  *)
(* its data and the zooms (voxel size in mm along each axis) of its header. *)
(* The zooms of a loaded image are above 0: the spec's data model gives     *)
(* every sample a positive voxel volume.                                    *)

UnexpectedNames == {"liver.nii.gz"}

\* images the uploads carry
Images ==
    { [voxel_count |-> 1000000, zooms |-> <<1, 1, 1>>],
      [voxel_count |-> 500000,  zooms |-> <<1, 1, 1>>],
      [voxel_count |-> 200000,  zooms |-> <<2, 1, 1>>],
      [voxel_count |-> 0,       zooms |-> <<1, 1, 1>>] }

File(n, img) == [name |-> n, voxel_count |-> img.voxel_count, zooms |-> img.zooms]

\* the data of a file the script does not recognize is never loaded
FilesOver(imgs) ==
    { File(file_names[k], img) : k \in 1..Len(file_names), img \in imgs }
    \cup { File(n, [voxel_count |-> 0, zooms |-> <<1, 1, 1>>]) : n \in UnexpectedNames }

SeqsUpTo(S, n) == UNION { [1..k -> S] : k \in 0..n }

----------------------------------------------------------------------------
(* analyze_voxel_data *)

EmptyDict == [x \in {} |-> 0]

\* voxel_data.get(name, 0)
DictGet(d, name) == IF name \in DOMAIN d THEN d[name] ELSE 0

\* voxel_data[file_name] = voxel_count
DictSet(d, name, v) == [x \in DOMAIN d \cup {name} |-> IF x = name THEN v ELSE d[x]]

\* abs(zooms[0] * zooms[1] * zooms[2]) / 1000
VoxelVolume(zooms) == RatDiv(Rat(Abs(zooms[1] * zooms[2] * zooms[3]), 1), Rat(1000, 1))

\* a volume of 0.0 for a loaded sample without positive voxels
Volume_ZeroIsVolume(vox_count, vv) ==
    IF vv # None THEN RatMul(Rat(vox_count, 1), vv) ELSE None

\* vox_count * voxel_volume if vox_count else None
Volume(vox_count, vv) == IF vox_count # 0 THEN RatMul(Rat(vox_count, 1), vv) ELSE None

\* a mass left in grams: the division by 1000 forgotten
Masse_NoScale(volume, masse_vol) == IF Truthy(volume) THEN RatMul(volume, masse_vol) ELSE None

\* a mass of 0.0, not None, for a volume that is missing
Masse_AbsentIsZero(volume, masse_vol) ==
    IF Truthy(volume) THEN RatDiv(RatMul(volume, masse_vol), Rat(1000, 1)) ELSE <<0, 1>>

\* volume * masse_vol / 1000 if volume else None
Masse(volume, masse_vol) ==
    IF Truthy(volume) THEN RatDiv(RatMul(volume, masse_vol), Rat(1000, 1)) ELSE None

\* the exception a + b raises, or "none"
AddError(a, b) == IF a = None \/ b = None THEN "TypeError" ELSE "none"

\* the exception a / b raises, or "none" (numpy floats: dividing by 0.0 raises nothing)
DivError(a, b) == IF a = None \/ b = None THEN "TypeError" ELSE "none"

\* a / b of two numpy floats: x / 0.0 is inf (<<1, 0>>) and 0.0 / 0.0 is nan (<<0, 0>>)
FloatDiv(a, b) ==
    IF b[1] # 0 THEN RatDiv(a, b)
    ELSE IF a[1] = 0 THEN <<0, 0>> ELSE <<1, 0>>

NoVolumes == [muscle |-> None, graisse_viscerale |-> None, graisse_sous_cut |-> None]

NoMessage == [kind |-> "none", missing |-> <<>>, extra |-> <<>>]

\* lines 39-41: the call binds fresh locals
AnalyzeCall ==
    /\ pc = "call"
    /\ voxel_data' = EmptyDict
    /\ voxel_volume' = None
    /\ i' = 1
    /\ pc' = "loop"
    /\ UNCHANGED <<uploaded_files, volumes, result, df_result, exception, message,
                   table, chart, export, last_failed>>

\* the voxel volume of the first recognized file kept
ReadVoxelVolume_First(old, f) == IF old = None THEN VoxelVolume(f.zooms) ELSE old

\* the voxel volume kept after a recognized file is loaded (line 54)
ReadVoxelVolume(old, f) == VoxelVolume(f.zooms)

\* lines 43-55: one iteration of the loop over uploaded_files
AnalyzeFile ==
    /\ pc = "loop"
    /\ i <= Len(uploaded_files)
    /\ LET f == uploaded_files[i]
       IN  IF InFileNames(f.name)
           THEN /\ voxel_volume' = ReadVoxelVolume(voxel_volume, f)
                /\ voxel_data' = DictSet(voxel_data, f.name, f.voxel_count)
           ELSE UNCHANGED <<voxel_data, voxel_volume>>
    /\ i' = i + 1
    /\ UNCHANGED <<uploaded_files, pc, volumes, result, df_result, exception, message,
                   table, chart, export, last_failed>>

\* lines 57-63
ComputeVolumes(d, vv) ==
    [muscle            |-> Volume(DictGet(d, "skeletal_muscle.nii.gz"), vv),
     graisse_viscerale |-> Volume(DictGet(d, "torso_fat.nii.gz"), vv),
     graisse_sous_cut  |-> Volume(DictGet(d, "subcutaneous_fat.nii.gz"), vv)]

AnalyzeVolumes ==
    /\ pc = "loop"
    /\ i > Len(uploaded_files)
    /\ volumes' = ComputeVolumes(voxel_data, voxel_volume)
    /\ pc' = "result"
    /\ UNCHANGED <<uploaded_files, i, voxel_data, voxel_volume, result, df_result,
                   exception, message, table, chart, export, last_failed>>

\* the two fat rows of each block in the other order
VolumeMassEntries_Swapped(v) ==
    << <<"Volume Muscle (cm³)", v.muscle>>,
       <<"Volume Graisse Viscerale (cm³)", v.graisse_viscerale>>,
       <<"Volume Graisse Sous-cutanée (cm³)", v.graisse_sous_cut>>,
       <<"Masse Muscle (kg)", Masse(v.muscle, masse_vol_muscle)>>,
       <<"Masse Graisse Viscerale (kg)", Masse(v.graisse_viscerale, masse_vol_graisse)>>,
       <<"Masse Graisse Sous-cutanée (kg)", Masse(v.graisse_sous_cut, masse_vol_graisse)>> >>

\* lines 67-72: the first six entries of the list literal
VolumeMassEntries(v) ==
    << <<"Volume Muscle (cm³)", v.muscle>>,
       <<"Volume Graisse Sous-cutanée (cm³)", v.graisse_sous_cut>>,
       <<"Volume Graisse Viscerale (cm³)", v.graisse_viscerale>>,
       <<"Masse Muscle (kg)", Masse(v.muscle, masse_vol_muscle)>>,
       <<"Masse Graisse Sous-cutanée (kg)", Masse(v.graisse_sous_cut, masse_vol_graisse)>>,
       <<"Masse Graisse Viscerale (kg)", Masse(v.graisse_viscerale, masse_vol_graisse)>> >>

AnalyzeEntries ==
    /\ pc = "result"
    /\ result' = VolumeMassEntries(volumes)
    /\ pc' = "ratios"
    /\ UNCHANGED <<uploaded_files, i, voxel_data, voxel_volume, volumes, df_result,
                   exception, message, table, chart, export, last_failed>>

\* lines 73-77: the exception the two ratio entries raise, in evaluation order
RatioError(v) ==
    LET m  == Masse(v.muscle, masse_vol_muscle)
        sc == Masse(v.graisse_sous_cut, masse_vol_graisse)
        vi == Masse(v.graisse_viscerale, masse_vol_graisse)
    IN  IF DivError(sc, vi) # "none" THEN DivError(sc, vi)
        ELSE IF AddError(sc, vi) # "none" THEN AddError(sc, vi)
        ELSE DivError(RatAdd(sc, vi), m)

\* lines 73-77: the two ratio entries, when nothing is raised
RatioEntries(v) ==
    LET m  == Masse(v.muscle, masse_vol_muscle)
        sc == Masse(v.graisse_sous_cut, masse_vol_graisse)
        vi == Masse(v.graisse_viscerale, masse_vol_graisse)
    IN  << <<"Rapport Graisse Sous-cutanée / Viscerale", FloatDiv(sc, vi)>>,
           <<"Rapport Graisse / Muscle", FloatDiv(RatAdd(sc, vi), m)>> >>

\* lines 73-83: the ratios, the DataFrame and the return, or the exception
AnalyzeRatios ==
    /\ pc = "ratios"
    /\ IF RatioError(volumes) # "none"
       THEN /\ exception' = RatioError(volumes)
            /\ pc' = "raised"
            /\ UNCHANGED <<result, df_result>>
       ELSE /\ result' = result \o RatioEntries(volumes)
            /\ df_result' = result'
            /\ pc' = "returned"
            /\ UNCHANGED exception
    /\ UNCHANGED <<uploaded_files, i, voxel_data, voxel_volume, volumes, message,
                   table, chart, export, last_failed>>

----------------------------------------------------------------------------
(* plot_data and convert_df_to_excel *)

\* the positions off by one: .iloc[2], .iloc[3], .iloc[4]
PlotMasses_OffByOne(df) == <<df[3][2], df[4][2], df[5][2]>>

\* lines 94-98: df['Valeur'].iloc[3], .iloc[4], .iloc[5]
PlotMasses(df) == <<df[4][2], df[5][2], df[6][2]>>

\* lines 92-116: the bars and the place of the text above each bar
plot_data(df) ==
    LET masses == PlotMasses(df)
    IN  [tissues |-> <<"Muscle", "Graisse Sous-cutanée", "Graisse Viscerale">>,
         masses  |-> masses,
         text_y  |-> [k \in 1..3 |-> RatAdd(masses[k], Rat(5, 100))]]

\* lines 86-90: one sheet, a header row and the rows of the DataFrame
convert_df_to_excel(df) == [columns |-> <<"Métrique", "Valeur">>, rows |-> df]

\* values the user may have typed into the text input (line 138); the first is the default
PatientIds == {"p_xxx", "p_001"}

----------------------------------------------------------------------------
(* The script: one run per change of the upload widget *)

\* [f for f in file_names if f not in uploaded_filenames], for names[k..]
RECURSIVE ListNotIn(_, _)
ListNotIn(names, others) ==
    IF names = <<>> THEN <<>>
    ELSE (IF \E k \in 1..Len(others) : others[k] = Head(names) THEN <<>> ELSE <<Head(names)>>)
         \o ListNotIn(Tail(names), others)

\* line 123
UploadedFilenames(files) == [k \in 1..Len(files) |-> files[k].name]

\* line 124
MissingFiles(files) == ListNotIn(file_names, UploadedFilenames(files))

\* line 125
ExtraFiles(files) == ListNotIn(UploadedFilenames(files), file_names)

\* a rerun that keeps what the previous run put on the page
StartRun_KeepsPage ==
    /\ pc = "done"
    /\ pc' = "start"
    /\ uploaded_files' = <<>>
    /\ i' = 0
    /\ voxel_data' = EmptyDict
    /\ voxel_volume' = None
    /\ volumes' = NoVolumes
    /\ result' = <<>>
    /\ df_result' = None
    /\ exception' = "none"
    /\ last_failed' = (message.kind # "none")
    /\ UNCHANGED <<message, table, chart, export>>

\* a rerun executes the script top-down in a fresh namespace on a cleared page
StartRun ==
    /\ pc = "done"
    /\ pc' = "start"
    /\ uploaded_files' = <<>>
    /\ i' = 0
    /\ voxel_data' = EmptyDict
    /\ voxel_volume' = None
    /\ volumes' = NoVolumes
    /\ result' = <<>>
    /\ df_result' = None
    /\ exception' = "none"
    /\ message' = NoMessage
    /\ table' = None
    /\ chart' = None
    /\ export' = None
    /\ last_failed' = (message.kind # "none")

\* line 120: the widget returns the files the user has put into it
FileUploader ==
    /\ pc = "start"
    /\ \E files \in SeqsUpTo(FilesOver(Images), MaxFiles) : uploaded_files' = files
    /\ pc' = "gate"
    /\ UNCHANGED <<i, voxel_data, voxel_volume, volumes, result, df_result, exception,
                   message, table, chart, export, last_failed>>

\* line 122, nothing uploaded: the run ends with the upload widget alone
GateEmpty ==
    /\ pc = "gate"
    /\ uploaded_files = <<>>
    /\ pc' = "done"
    /\ UNCHANGED <<uploaded_files, i, voxel_data, voxel_volume, volumes, result,
                   df_result, exception, message, table, chart, export, last_failed>>

\* a gate that looks at the missing names only
NameMismatch_MissingOnly(files) == MissingFiles(files) # <<>>

\* the condition of line 127
NameMismatch(files) == MissingFiles(files) # <<>> \/ ExtraFiles(files) # <<>>

\* a gate that lets more than three files through
CountOk_AtLeast(files) == Len(files) >= 3

\* the condition of line 129
CountOk(files) == Len(files) = 3

\* lines 127-128
GateError ==
    /\ pc = "gate"
    /\ uploaded_files # <<>>
    /\ NameMismatch(uploaded_files)
    /\ message' = [kind |-> "error", missing |-> MissingFiles(uploaded_files),
                   extra |-> ExtraFiles(uploaded_files)]
    /\ pc' = "done"
    /\ UNCHANGED <<uploaded_files, i, voxel_data, voxel_volume, volumes, result,
                   df_result, exception, table, chart, export, last_failed>>

\* lines 129-130: the call of analyze_voxel_data
GateAnalyze ==
    /\ pc = "gate"
    /\ uploaded_files # <<>>
    /\ ~NameMismatch(uploaded_files)
    /\ CountOk(uploaded_files)
    /\ pc' = "call"
    /\ UNCHANGED <<uploaded_files, i, voxel_data, voxel_volume, volumes, result,
                   df_result, exception, message, table, chart, export, last_failed>>

\* lines 140-141
GateWarning ==
    /\ pc = "gate"
    /\ uploaded_files # <<>>
    /\ ~NameMismatch(uploaded_files)
    /\ ~CountOk(uploaded_files)
    /\ message' = [kind |-> "warning", missing |-> <<>>, extra |-> <<>>]
    /\ pc' = "done"
    /\ UNCHANGED <<uploaded_files, i, voxel_data, voxel_volume, volumes, result,
                   df_result, exception, table, chart, export, last_failed>>

\* line 130, analyze_voxel_data raised: the run stops there and shows the exception
Uncaught ==
    /\ pc = "raised"
    /\ message' = [kind |-> exception, missing |-> <<>>, extra |-> <<>>]
    /\ pc' = "done"
    /\ UNCHANGED <<uploaded_files, i, voxel_data, voxel_volume, volumes, result,
                   df_result, exception, table, chart, export, last_failed>>

\* lines 131-132
ShowTable ==
    /\ pc = "returned"
    /\ table' = df_result
    /\ pc' = "plot"
    /\ UNCHANGED <<uploaded_files, i, voxel_data, voxel_volume, volumes, result,
                   df_result, exception, message, chart, export, last_failed>>

\* line 134
PlotData ==
    /\ pc = "plot"
    /\ chart' = plot_data(df_result)
    /\ pc' = "export"
    /\ UNCHANGED <<uploaded_files, i, voxel_data, voxel_volume, volumes, result,
                   df_result, exception, message, table, export, last_failed>>

\* lines 136-139
Export ==
    /\ pc = "export"
    /\ \E patient_id \in PatientIds :
           export' = [data |-> convert_df_to_excel(df_result),
                      file_name |-> patient_id \o ".xlsx"]
    /\ pc' = "done"
    /\ UNCHANGED <<uploaded_files, i, voxel_data, voxel_volume, volumes, result,
                   df_result, exception, message, table, chart, last_failed>>

Init ==
    /\ pc = "start"
    /\ uploaded_files = <<>>
    /\ i = 0
    /\ voxel_data = EmptyDict
    /\ voxel_volume = None
    /\ volumes = NoVolumes
    /\ result = <<>>
    /\ df_result = None
    /\ exception = "none"
    /\ message = NoMessage
    /\ table = None
    /\ chart = None
    /\ export = None
    /\ last_failed = FALSE

Next ==
    \/ StartRun
    \/ FileUploader
    \/ GateEmpty
    \/ GateError
    \/ GateAnalyze
    \/ GateWarning
    \/ AnalyzeCall
    \/ AnalyzeFile
    \/ AnalyzeVolumes
    \/ AnalyzeEntries
    \/ AnalyzeRatios
    \/ Uncaught
    \/ ShowTable
    \/ PlotData
    \/ Export

Spec == Init /\ [][Next]_vars

----------------------------------------------------------------------------
(* analyze_voxel_data called on its own, with any list of files *)

InitCall ==
    /\ pc = "call"
    /\ uploaded_files \in SeqsUpTo(FilesOver(Images), MaxCallFiles)
    /\ i = 0
    /\ voxel_data = EmptyDict
    /\ voxel_volume = None
    /\ volumes = NoVolumes
    /\ result = <<>>
    /\ df_result = None
    /\ exception = "none"
    /\ message = NoMessage
    /\ table = None
    /\ chart = None
    /\ export = None
    /\ last_failed = FALSE

NextCall ==
    \/ AnalyzeCall
    \/ AnalyzeFile
    \/ AnalyzeVolumes
    \/ AnalyzeEntries
    \/ AnalyzeRatios

SpecCall == InitCall /\ [][NextCall]_vars

----------------------------------------------------------------------------
(* What the claims speak of, stated from the uploaded files alone *)

Muscle == "skeletal_muscle.nii.gz"
SousCut == "subcutaneous_fat.nii.gz"
Viscerale == "torso_fat.nii.gz"

RequiredNames == {Muscle, SousCut, Viscerale}

NamesOf(files) == { files[k].name : k \in 1..Len(files) }

\* required names no uploaded file carries
AbsentNames(files) == RequiredNames \ NamesOf(files)

\* uploaded names that are not required
ForeignNames(files) == NamesOf(files) \ RequiredNames

Range(seq) == { seq[k] : k \in 1..Len(seq) }

NoDuplicates(seq) == \A j, k \in 1..Len(seq) : seq[j] = seq[k] => j = k

\* position of the last file of that name, 0 when there is none
LastIndexOf(files, n) ==
    IF n \in NamesOf(files)
    THEN CHOOSE k \in 1..Len(files) :
            files[k].name = n /\ \A j \in (k + 1)..Len(files) : files[j].name # n
    ELSE 0

\* position of the last file with a required name, 0 when there is none
LastRecognized(files) ==
    IF NamesOf(files) \cap RequiredNames # {}
    THEN CHOOSE k \in 1..Len(files) :
            /\ files[k].name \in RequiredNames
            /\ \A j \in (k + 1)..Len(files) : files[j].name \notin RequiredNames
    ELSE 0

\* positive-voxel count of a role, 0 when no file of that role is uploaded
CountOf(files, n) ==
    IF LastIndexOf(files, n) = 0 THEN 0 ELSE files[LastIndexOf(files, n)].voxel_count

ZoomProduct(f) == Abs(f.zooms[1] * f.zooms[2] * f.zooms[3])

\* mm3 per voxel of the last recognized file
RetainedZoomProduct(files) ==
    IF LastRecognized(files) = 0 THEN 0 ELSE ZoomProduct(files[LastRecognized(files)])

\* count x voxel volume, in cm3
ExpVolume(files, n) == Rat(CountOf(files, n) * RetainedZoomProduct(files), 1000)

\* volume x (num / den) / 1000
ExpMass(v, num, den) == Rat(v[1] * num, v[2] * den * 1000)

ExpMassMuscle(files) == ExpMass(ExpVolume(files, Muscle), 106, 100)
ExpMassSousCut(files) == ExpMass(ExpVolume(files, SousCut), 9196, 10000)
ExpMassViscerale(files) == ExpMass(ExpVolume(files, Viscerale), 9196, 10000)

ExpQuotient(a, b) == Rat(a[1] * b[2], a[2] * b[1])

ExpSum(a, b) == Rat(a[1] * b[2] + b[1] * a[2], a[2] * b[2])

\* all three roles uploaded with a positive count, and a voxel volume above 0
AllPositive(files) ==
    /\ \A n \in RequiredNames : CountOf(files, n) > 0
    /\ RetainedZoomProduct(files) > 0

\* a value that is present, finite and above 0
Positive(v) == v # None /\ v[1] > 0 /\ v[2] > 0

Labels ==
    <<"Volume Muscle (cm³)", "Volume Graisse Sous-cutanée (cm³)",
      "Volume Graisse Viscerale (cm³)", "Masse Muscle (kg)",
      "Masse Graisse Sous-cutanée (kg)", "Masse Graisse Viscerale (kg)",
      "Rapport Graisse Sous-cutanée / Viscerale", "Rapport Graisse / Muscle">>

\* the eight values of the MetricSet of files with AllPositive
ExpValues(files) ==
    <<ExpVolume(files, Muscle), ExpVolume(files, SousCut), ExpVolume(files, Viscerale),
      ExpMassMuscle(files), ExpMassSousCut(files), ExpMassViscerale(files),
      ExpQuotient(ExpMassSousCut(files), ExpMassViscerale(files)),
      ExpQuotient(ExpSum(ExpMassSousCut(files), ExpMassViscerale(files)),
                  ExpMassMuscle(files))>>

ExpMetricSet(files) == [k \in 1..8 |-> <<Labels[k], ExpValues(files)[k]>>]

\* positions at which analyze_voxel_data runs, or has run
InAnalyze == pc \in {"call", "loop", "result", "ratios", "raised", "returned"}

NothingShown == table = None /\ chart = None /\ export = None

NeverAnalyzed ==
    /\ ~InAnalyze
    /\ i = 0 /\ voxel_data = EmptyDict /\ result = <<>> /\ df_result = None
    /\ NothingShown

----------------------------------------------------------------------------
(* C1 *)

NameCheckFails(files) == AbsentNames(files) # {} \/ ForeignNames(files) # {}

ErrorListsExactly(files) ==
    /\ message.kind = "error"
    /\ Range(message.missing) = AbsentNames(files)
    /\ NoDuplicates(message.missing)
    /\ Range(message.extra) = ForeignNames(files)
    /\ Len(message.extra) = Cardinality({k \in 1..Len(files) : files[k].name \notin RequiredNames})

\* C1 as stated: every run whose uploaded names miss a required name or hold an
\* unexpected one ends with the error listing exactly the missing and the
\* unexpected names, and never reaches the analysis, the table, the chart, the export.
C1_AnyMismatchReported ==
    (pc = "done" /\ NameCheckFails(uploaded_files))
        => (ErrorListsExactly(uploaded_files) /\ NeverAnalyzed)

\* C1 amended: the same for every run with at least one uploaded file; a run with
\* no uploaded file shows no error (and reaches none of the four either).
C1_NonEmptyMismatchReported ==
    /\ (pc = "done" /\ uploaded_files # <<>> /\ NameCheckFails(uploaded_files))
          => (ErrorListsExactly(uploaded_files) /\ NeverAnalyzed)
    /\ (pc = "done" /\ uploaded_files = <<>>) => (message.kind = "none" /\ NeverAnalyzed)
    /\ (pc # "start" /\ NameCheckFails(uploaded_files)) => NeverAnalyzed

\* a run that ended with both a missing and two unexpected names listed
C1_Witness ==
    /\ pc = "done"
    /\ message.kind = "error"
    /\ message.missing = <<"subcutaneous_fat.nii.gz">>
    /\ Len(message.extra) = 2
    /\ Len(uploaded_files) = 4

----------------------------------------------------------------------------
(* C2 *)

\* C2: names that pass the name check with a number of files other than three end
\* in the warning without analyze_voxel_data being called; analyze_voxel_data runs
\* only on exactly three files whose names are exactly the three required names.
C2_CountGate ==
    /\ (pc = "done" /\ ~NameCheckFails(uploaded_files) /\ Len(uploaded_files) # 3)
          => (message.kind = "warning" /\ NeverAnalyzed)
    /\ (pc # "start" /\ ~NameCheckFails(uploaded_files) /\ Len(uploaded_files) # 3)
          => NeverAnalyzed
    /\ (InAnalyze \/ df_result # None \/ i # 0 \/ ~NothingShown)
          => (Len(uploaded_files) = 3 /\ NamesOf(uploaded_files) = RequiredNames)

\* four files, the three required names among them twice over: the warning
C2_Witness ==
    /\ pc = "done"
    /\ Len(uploaded_files) = 4
    /\ ~NameCheckFails(uploaded_files)
    /\ message.kind = "warning"

----------------------------------------------------------------------------
(* C3 *)

\* a role without a positive voxel count recorded once the loop is over
SomeRoleMissing ==
    /\ pc \in {"result", "ratios", "raised", "returned"}
    /\ \E n \in RequiredNames : DictGet(voxel_data, n) = 0

\* C3 as stated: with the sample of a role missing, analyze_voxel_data returns
\* (it does not raise), the metrics of that role None and the others computed.
C3_MissingRoleReturns ==
    /\ SomeRoleMissing => pc # "raised"
    /\ (SomeRoleMissing /\ pc = "returned") =>
          \A k \in 1..3 :
              IF DictGet(voxel_data, file_names[k]) = 0
              THEN df_result[k][2] = None /\ df_result[k + 3][2] = None
              ELSE df_result[k][2] # None /\ df_result[k + 3][2] # None

----------------------------------------------------------------------------
(* C4 *)

\* C4: with three positive counts and a positive voxel volume the returned values
\* are count x voxel volume, volume x density / 1000 (1.06 muscle, 0.9196 fat),
\* subcutaneous mass / visceral mass and (subcutaneous + visceral mass) / muscle mass.
C4_Arithmetic ==
    (pc \in {"ratios", "raised", "returned"} /\ AllPositive(uploaded_files)) =>
        /\ pc # "raised"
        /\ \A k \in 1..6 : result[k][2] = ExpValues(uploaded_files)[k]
        /\ pc = "returned" =>
              /\ Len(df_result) = 8
              /\ \A k \in 1..8 : df_result[k][2] = ExpValues(uploaded_files)[k]

\* the spec's fixture: counts 1000000, 500000, 200000 and 0.001 cm3 per voxel
C4_Witness ==
    /\ pc = "returned"
    /\ CountOf(uploaded_files, Muscle) = 1000000
    /\ CountOf(uploaded_files, SousCut) = 500000
    /\ CountOf(uploaded_files, Viscerale) = 200000
    /\ voxel_volume = <<1, 1000>>
    /\ [k \in 1..8 |-> df_result[k][2]] =
          << <<1000, 1>>, <<500, 1>>, <<200, 1>>,
             <<53, 50>>, <<2299, 5000>>, <<2299, 12500>>,
             <<5, 2>>, <<16093, 26500>> >>

----------------------------------------------------------------------------
(* C5 *)

\* C5: a returned result has exactly the 8 entries volume muscle, subcutaneous,
\* visceral, mass muscle, subcutaneous, visceral, ratio subcutaneous / visceral,
\* ratio fat / muscle, each holding the value of its role whatever the upload order.
C5_FixedOrder ==
    df_result # None =>
        /\ Len(df_result) = 8
        /\ \A k \in 1..8 : Len(df_result[k]) = 2 /\ df_result[k][1] = Labels[k]
        /\ df_result[1][2] = ExpVolume(uploaded_files, Muscle)
        /\ df_result[2][2] = ExpVolume(uploaded_files, SousCut)
        /\ df_result[3][2] = ExpVolume(uploaded_files, Viscerale)
        /\ df_result[4][2] = ExpMassMuscle(uploaded_files)
        /\ df_result[5][2] = ExpMassSousCut(uploaded_files)
        /\ df_result[6][2] = ExpMassViscerale(uploaded_files)

\* a result for files uploaded in the reverse of the order of file_names
C5_Witness ==
    /\ pc = "returned"
    /\ Len(uploaded_files) = 3
    /\ uploaded_files[1].name = Viscerale
    /\ uploaded_files[2].name = SousCut
    /\ uploaded_files[3].name = Muscle
    /\ df_result[2][2] # df_result[3][2]
    /\ Len(df_result) = 8

----------------------------------------------------------------------------
(* C6 *)

\* exactly the three required files, each with positive voxels
GoodUpload(files) ==
    /\ Len(files) = 3
    /\ NamesOf(files) = RequiredNames
    /\ \A n \in RequiredNames : CountOf(files, n) > 0

\* C6: whatever the earlier runs of the session showed, a run on exactly the three
\* required files with positive counts ends with the table, the chart and the
\* export of the metrics of these files, and nothing a run holds or shows comes
\* from an earlier run.
C6_SessionLocal ==
    /\ (pc = "done" /\ GoodUpload(uploaded_files)) =>
          /\ message.kind = "none"
          /\ df_result = ExpMetricSet(uploaded_files)
          /\ table = df_result
          /\ chart # None
          /\ chart.masses = <<ExpMassMuscle(uploaded_files), ExpMassSousCut(uploaded_files),
                              ExpMassViscerale(uploaded_files)>>
          /\ export # None
          /\ export.data.rows = df_result
    /\ pc \in {"start", "gate"} =>
          /\ message.kind = "none" /\ exception = "none" /\ NothingShown
          /\ i = 0 /\ voxel_data = EmptyDict /\ voxel_volume = None /\ df_result = None
    /\ message.kind = "error" => (pc = "done" /\ NameCheckFails(uploaded_files))
    /\ message.kind = "warning" => (pc = "done" /\ Len(uploaded_files) # 3)
    /\ table # None => table = ExpMetricSet(uploaded_files)

\* the run after one that ended in an error, a warning or an exception shows everything
C6_Witness ==
    /\ last_failed
    /\ pc = "done"
    /\ GoodUpload(uploaded_files)
    /\ table # None /\ chart # None /\ export # None

----------------------------------------------------------------------------
(* C7 *)

AfterLoop == pc \in {"result", "ratios", "raised", "returned"}

\* C7: the voxel volume kept is that of the last recognized file in upload order,
\* the volume of every role is its count times that one voxel volume, and files
\* that disagree on the voxel volume raise nothing.
C7_LastVoxelVolume ==
    /\ AfterLoop =>
          /\ voxel_volume = IF LastRecognized(uploaded_files) = 0 THEN None
                            ELSE Rat(RetainedZoomProduct(uploaded_files), 1000)
          /\ volumes.muscle = IF CountOf(uploaded_files, Muscle) = 0 THEN None
                              ELSE ExpVolume(uploaded_files, Muscle)
          /\ volumes.graisse_sous_cut = IF CountOf(uploaded_files, SousCut) = 0 THEN None
                                        ELSE ExpVolume(uploaded_files, SousCut)
          /\ volumes.graisse_viscerale = IF CountOf(uploaded_files, Viscerale) = 0 THEN None
                                         ELSE ExpVolume(uploaded_files, Viscerale)
    /\ pc = "raised" => ~AllPositive(uploaded_files)

Reverse(seq) == [k \in 1..Len(seq) |-> seq[Len(seq) + 1 - k]]

\* a result for three files of which the first has another voxel volume than the
\* last: its volume is not its own count times its own voxel volume, and the
\* same files uploaded in the reverse order give another volume
C7_Witness ==
    /\ pc = "returned"
    /\ Len(uploaded_files) = 3
    /\ uploaded_files[1].name = Muscle
    /\ ZoomProduct(uploaded_files[1]) > 0
    /\ ZoomProduct(uploaded_files[1]) # ZoomProduct(uploaded_files[3])
    /\ AllPositive(Reverse(uploaded_files))
    /\ ExpVolume(Reverse(uploaded_files), Muscle) # df_result[1][2]
    /\ df_result[1][2] # Rat(uploaded_files[1].voxel_count * ZoomProduct(uploaded_files[1]), 1000)
    /\ df_result[1][2] = Rat(uploaded_files[1].voxel_count * ZoomProduct(uploaded_files[3]), 1000)

----------------------------------------------------------------------------
(* C8 *)

NotUploaded(files, n) == n \notin NamesOf(files)

UploadedEmpty(files, n) == n \in NamesOf(files) /\ CountOf(files, n) = 0

\* volume and mass of role number k as far as the call has computed them
VolumeOfRole(k) ==
    IF k = 1 THEN volumes.muscle
    ELSE IF k = 2 THEN volumes.graisse_sous_cut ELSE volumes.graisse_viscerale

\* C8: a role whose file has no positive voxel and a role without a file come
\* out alike: volume None, mass None, and the call ends in the TypeError.
C8_ZeroAsAbsent ==
    \A k \in 1..3 :
        (AfterLoop /\ (NotUploaded(uploaded_files, file_names[k])
                       \/ UploadedEmpty(uploaded_files, file_names[k]))) =>
            /\ VolumeOfRole(k) = None
            /\ pc \in {"ratios", "raised", "returned"} => result[k + 3][2] = None
            /\ pc # "returned" /\ df_result = None
            /\ pc = "raised" => exception = "TypeError"

\* one role without a file and another with a file without positive voxels
C8_Witness ==
    /\ pc = "raised"
    /\ NotUploaded(uploaded_files, Muscle)
    /\ UploadedEmpty(uploaded_files, SousCut)
    /\ CountOf(uploaded_files, Viscerale) > 0
    /\ volumes.muscle = None /\ volumes.graisse_sous_cut = None
    /\ Positive(volumes.graisse_viscerale)
    /\ exception = "TypeError"

----------------------------------------------------------------------------
(* C9 *)

\* C9: a chart exists only once analyze_voxel_data has returned, and its bars are
\* the muscle, subcutaneous and visceral mass of the returned result, which are
\* its entries 3, 4 and 5 (counted from 0).
C9_ChartBars ==
    /\ chart # None =>
          /\ pc \in {"export", "done"}
          /\ df_result # None
          /\ exception = "none"
          /\ chart.tissues = <<"Muscle", "Graisse Sous-cutanée", "Graisse Viscerale">>
          /\ chart.masses = <<df_result[4][2], df_result[5][2], df_result[6][2]>>
          /\ <<df_result[4][1], df_result[5][1], df_result[6][1]>> =
                <<"Masse Muscle (kg)", "Masse Graisse Sous-cutanée (kg)",
                  "Masse Graisse Viscerale (kg)">>
          /\ chart.masses = <<ExpMassMuscle(uploaded_files), ExpMassSousCut(uploaded_files),
                              ExpMassViscerale(uploaded_files)>>
    /\ pc \in {"export", "done"} /\ df_result # None => chart # None

\* a chart of three different masses
C9_Witness ==
    /\ pc = "export"
    /\ chart # None
    /\ chart.masses[1] # chart.masses[2]
    /\ chart.masses[2] # chart.masses[3]
    /\ chart.masses[1] # chart.masses[3]

----------------------------------------------------------------------------
(* C10 *)

\* C10: a result is returned only for three positive counts and a voxel volume
\* other than 0; all 8 values of a result that is returned, shown, drawn or
\* exported are present and above 0; no ratio divides by 0, and the one
\* exception of the ratios is the TypeError of a None operand.
C10_ReturnedIsPositive ==
    /\ df_result # None =>
          /\ AllPositive(uploaded_files)
          /\ Len(df_result) = 8
          /\ \A k \in 1..8 : Positive(df_result[k][2])
    /\ table # None => \A k \in 1..8 : Positive(table[k][2])
    /\ chart # None => \A k \in 1..3 : Positive(chart.masses[k])
    /\ export # None => \A k \in 1..8 : Positive(export.data.rows[k][2])
    /\ pc \in {"ratios", "raised", "returned"} =>
          \A k \in 4..6 : result[k][2] = None \/ result[k][2][1] # 0
    /\ exception \in {"none", "TypeError"}
    /\ exception # "none" <=> pc = "raised" \/ message.kind = "TypeError"
    /\ exception # "none" => \E k \in 4..6 : result[k][2] = None
    /\ pc = "returned" => df_result # None

\* an exported result
C10_Witness ==
    /\ pc = "done"
    /\ export # None
    /\ \A k \in 1..8 : Positive(export.data.rows[k][2])
    /\ \A k \in 1..3 : chart.masses[k] = table[k + 3][2]

====
